---- MODULE Spec2Model ----
(***************************************************************************)
(* A model of libextra/bitv.rs: the bit vector Bitv with its two           *)
(* representations (SmallBitv, BigBitv) and the growable set BitvSet.      *)
(*                                                                         *)
(* A word (uint) is a number in 0 .. 2^WORD_BITS - 1.  The word width is   *)
(* scaled down from 32/64 to WORD_BITS; counters of type uint (BitvSet's   *)
(* size) are kept modulo 2^UINT_COUNT_BITS, wide enough that a count of    *)
(* the bits of any modelled storage fits, as it does in the program.       *)
(* Storage vectors are sequences: Rust's storage[i] is storage[i + 1].     *)
(***************************************************************************)
EXTENDS Integers, Sequences, FiniteSets, TLC

\* uint::bits, scaled
WORD_BITS == 2
\* width of the uint counters (size), scaled
UINT_COUNT_BITS == 6

\* Bounds of the model
MaxNbits == 4
MaxWords == 4
MaxVal == 5
MaxConvBits == 9
MaxBytes == 2

VARIABLES
    shl_overflow,   \* what 1 << uint::bits evaluates to in this build
    bitv,           \* the Bitv under test (SpecBitv)
    set,            \* the BitvSet under test (Spec)
    pre,            \* the receiver as it was before the last operation
    op,             \* the last operation: name, arguments, operand as passed
    operand,        \* the right-hand operand as the last operation left it
    ret,            \* what the last operation returned
    calls,          \* the values the last operation passed to its callback f
    failed          \* the last operation ended in fail!()

vars == <<shl_overflow, bitv, set, pre, op, operand, ret, calls, failed>>

----------------------------------------------------------------------------
(* Words *)

RECURSIVE Pow2(_)
Pow2(n) == IF n = 0 THEN 1 ELSE 2 * Pow2(n - 1)

WordModulus == Pow2(WORD_BITS)
UintModulus == Pow2(UINT_COUNT_BITS)

\* uint arithmetic wraps around
WrapUint(x) == x % UintModulus

\* !0
AllOnes == WordModulus - 1

Words == 0 .. AllOnes

\* bit i of w
BitAt(w, i) == (w \div Pow2(i)) % 2

\* x & y, x | y, x ^ y: bit by bit from the lowest bit up
RECURSIVE BitAnd(_, _)
BitAnd(x, y) ==
    IF x = 0 \/ y = 0 THEN 0
    ELSE (x % 2) * (y % 2) + 2 * BitAnd(x \div 2, y \div 2)

RECURSIVE BitOr(_, _)
BitOr(x, y) ==
    IF x = 0 THEN y ELSE IF y = 0 THEN x
    ELSE (IF x % 2 = 1 \/ y % 2 = 1 THEN 1 ELSE 0) + 2 * BitOr(x \div 2, y \div 2)

RECURSIVE BitXor(_, _)
BitXor(x, y) ==
    IF x = 0 THEN y ELSE IF y = 0 THEN x
    ELSE (IF (x % 2) # (y % 2) THEN 1 ELSE 0) + 2 * BitXor(x \div 2, y \div 2)

\* !w
BitNot(w) == AllOnes - w

\* 1 << n for n < uint::bits
ShlOne(n) == Pow2(n)

\* 1 << uint::bits.  A shift by the full width is not defined by the
\* language: the build either uses the count modulo the width ("wrap",
\* giving 1 << 0) or shifts everything out ("zero", giving 0).
ShlFullWidth ==
    CASE shl_overflow = "wrap" -> 1
      [] shl_overflow = "zero" -> 0

\* the closures handed to bits_op / process / other_op
ApplyOp(f, w1, w2) ==
    CASE f = "Union"      -> BitOr(w1, w2)
      [] f = "Intersect"  -> BitAnd(w1, w2)
      [] f = "Assign"     -> w2
      [] f = "Difference" -> BitAnd(w1, BitNot(w2))
      [] f = "Xor"        -> BitXor(w1, w2)

----------------------------------------------------------------------------
(* SmallBitv *)

\* (1 << nbits) - 1
small_mask(nbits) ==
    ((IF nbits < WORD_BITS THEN ShlOne(nbits) ELSE ShlFullWidth) - 1) % WordModulus

SmallBitv_bits_op(bits, right_bits, nbits, f) ==
    LET mask  == small_mask(nbits)
        old_b == bits
        new_b == ApplyOp(f, old_b, right_bits)
    IN [bits |-> new_b, ret |-> BitAnd(mask, old_b) # BitAnd(mask, new_b)]

SmallBitv_get(bits, i) == BitAnd(bits, ShlOne(i)) # 0

SmallBitv_set(bits, i, x) ==
    IF x THEN BitOr(bits, ShlOne(i)) ELSE BitAnd(bits, BitNot(ShlOne(i)))

SmallBitv_is_true(bits, nbits) ==
    BitAnd(small_mask(nbits), BitNot(bits)) = 0

SmallBitv_is_false(bits, nbits) ==
    BitAnd(small_mask(nbits), bits) = 0

SmallBitv_equals(bits, b_bits, nbits) ==
    LET mask == small_mask(nbits)
    IN BitAnd(mask, bits) = BitAnd(mask, b_bits)

----------------------------------------------------------------------------
(* BigBitv *)

big_mask(nbits, elem) ==
    LET rmd    == nbits % WORD_BITS
        nelems == nbits \div WORD_BITS + (IF rmd = 0 THEN 0 ELSE 1)
    IN IF elem < WrapUint(nelems - 1) \/ rmd = 0
       THEN AllOnes
       ELSE Pow2(rmd) - 1

\* process: assert_eq!(self.storage.len(), len), then the word loop
BigBitv_process(storage, b_storage, nbits, f) ==
    LET len == Len(b_storage)
    IN IF Len(storage) # len
       THEN [storage |-> storage, ret |-> FALSE, failed |-> TRUE]
       ELSE LET mask(i) == big_mask(nbits, i)
                w0(i)   == BitAnd(storage[i + 1], mask(i))
                w1(i)   == BitAnd(b_storage[i + 1], mask(i))
                w(i)    == BitAnd(ApplyOp(f, w0(i), w1(i)), mask(i))
            IN [storage |-> [k \in 1 .. len |->
                                IF w0(k - 1) # w(k - 1) THEN w(k - 1)
                                ELSE storage[k]],
                ret     |-> \E i \in 0 .. len - 1 : w0(i) # w(i),
                failed  |-> FALSE]

BigBitv_get(storage, i) ==
    LET w == i \div WORD_BITS
        b == i % WORD_BITS
    IN BitAt(storage[w + 1], b) = 1

BigBitv_set(storage, i, x) ==
    LET w    == i \div WORD_BITS
        b    == i % WORD_BITS
        flag == ShlOne(b)
    IN [storage EXCEPT ![w + 1] =
            IF x THEN BitOr(@, flag) ELSE BitAnd(@, BitNot(flag))]

\* equals: reads self.storage[i] for every i below b.storage.len(); an index
\* past the end of self.storage fails
BigBitv_equals(storage, b_storage, nbits) ==
    LET len == Len(b_storage)
        RECURSIVE loop(_)
        loop(i) ==
            IF i >= len THEN [ret |-> TRUE, failed |-> FALSE]
            ELSE IF i >= Len(storage) THEN [ret |-> FALSE, failed |-> TRUE]
            ELSE IF BitAnd(big_mask(nbits, i), storage[i + 1])
                     # BitAnd(big_mask(nbits, i), b_storage[i + 1])
                 THEN [ret |-> FALSE, failed |-> FALSE]
                 ELSE loop(i + 1)
    IN loop(0)

----------------------------------------------------------------------------
(* Bitv *)

SmallRep(bits, nbits) ==
    [kind |-> "Small", bits |-> bits, storage |-> <<>>, nbits |-> nbits]

BigRep(storage, nbits) ==
    [kind |-> "Big", bits |-> 0, storage |-> storage, nbits |-> nbits]

\* vec::from_elem(n, elem)
from_elem(n, elem) == [k \in 1 .. n |-> elem]

\* new whose word array is filled with 0 whatever init is
Bitv_new_BigZeroed(nbits, init) ==
    IF nbits <= WORD_BITS
    THEN SmallRep(IF init THEN AllOnes ELSE 0, nbits)
    ELSE LET nelems == nbits \div WORD_BITS
                       + (IF nbits % WORD_BITS = 0 THEN 0 ELSE 1)
         IN BigRep(from_elem(nelems, 0), nbits)

\* new with nbits / uint::bits + 1 words, as clone allocates them
Bitv_new_ExtraWord(nbits, init) ==
    IF nbits <= WORD_BITS
    THEN SmallRep(IF init THEN AllOnes ELSE 0, nbits)
    ELSE BigRep(from_elem(nbits \div WORD_BITS + 1,
                          IF init THEN AllOnes ELSE 0), nbits)

Bitv_new(nbits, init) ==
    IF nbits <= WORD_BITS
    THEN SmallRep(IF init THEN AllOnes ELSE 0, nbits)
    ELSE LET nelems == nbits \div WORD_BITS
                       + (IF nbits % WORD_BITS = 0 THEN 0 ELSE 1)
             elem   == IF init THEN AllOnes ELSE 0
         IN BigRep(from_elem(nelems, elem), nbits)

\* do_op without its length check: only the representations are compared
Bitv_do_op_NoLengthCheck(self, f, other) ==
    IF self.kind = "Small"
    THEN IF other.kind = "Small"
         THEN LET r == SmallBitv_bits_op(self.bits, other.bits, self.nbits, f)
              IN [self |-> [self EXCEPT !.bits = r.bits],
                  ret |-> r.ret, failed |-> FALSE]
         ELSE [self |-> self, ret |-> FALSE, failed |-> TRUE]
    ELSE IF other.kind = "Small"
         THEN [self |-> self, ret |-> FALSE, failed |-> TRUE]
         ELSE LET r == BigBitv_process(self.storage, other.storage, self.nbits, f)
              IN [self |-> [self EXCEPT !.storage = r.storage],
                  ret |-> r.ret, failed |-> r.failed]

\* do_op: die() on differing nbits or differing representations
Bitv_do_op(self, f, other) ==
    IF self.nbits # other.nbits
    THEN [self |-> self, ret |-> FALSE, failed |-> TRUE]
    ELSE IF self.kind = "Small"
    THEN IF other.kind = "Small"
         THEN LET r == SmallBitv_bits_op(self.bits, other.bits, self.nbits, f)
              IN [self |-> [self EXCEPT !.bits = r.bits],
                  ret |-> r.ret, failed |-> FALSE]
         ELSE [self |-> self, ret |-> FALSE, failed |-> TRUE]
    ELSE IF other.kind = "Small"
         THEN [self |-> self, ret |-> FALSE, failed |-> TRUE]
         ELSE LET r == BigBitv_process(self.storage, other.storage, self.nbits, f)
              IN [self |-> [self EXCEPT !.storage = r.storage],
                  ret |-> r.ret, failed |-> r.failed]

\* get, for i < nbits (the assert!(i < self.nbits) is the caller's guard)
Bitv_get(self, i) ==
    IF self.kind = "Big" THEN BigBitv_get(self.storage, i)
    ELSE SmallBitv_get(self.bits, i)

\* set that writes the whole word bit i lies in
Bitv_set_WholeWord(self, i, x) ==
    IF self.kind = "Big"
    THEN [self EXCEPT !.storage[i \div WORD_BITS + 1] = IF x THEN AllOnes ELSE 0]
    ELSE [self EXCEPT !.bits = IF x THEN AllOnes ELSE 0]

\* set, for i < nbits
Bitv_set(self, i, x) ==
    IF self.kind = "Big"
    THEN [self EXCEPT !.storage = BigBitv_set(self.storage, i, x)]
    ELSE [self EXCEPT !.bits = SmallBitv_set(self.bits, i, x)]

\* is_true: Small by the mask; otherwise each() until a bit is false
Bitv_is_true(self) ==
    IF self.kind = "Small" THEN SmallBitv_is_true(self.bits, self.nbits)
    ELSE LET RECURSIVE each(_)
             each(i) == IF i >= self.nbits THEN TRUE
                        ELSE IF ~Bitv_get(self, i) THEN FALSE
                        ELSE each(i + 1)
         IN each(0)

\* is_false: Small by the mask; Big by each() until a bit is true
Bitv_is_false(self) ==
    IF self.kind = "Small" THEN SmallBitv_is_false(self.bits, self.nbits)
    ELSE LET RECURSIVE each(_)
             each(i) == IF i >= self.nbits THEN TRUE
                        ELSE IF Bitv_get(self, i) THEN FALSE
                        ELSE each(i + 1)
         IN each(0)

\* get(i) with its assert!(i < self.nbits)
Bitv_get_asserted(self, i) ==
    IF ~(i < self.nbits) THEN [ret |-> FALSE, failed |-> TRUE]
    ELSE [ret |-> Bitv_get(self, i), failed |-> FALSE]

\* set(i, x) with its assert!(i < self.nbits)
Bitv_set_asserted(self, i, x) ==
    IF ~(i < self.nbits) THEN [self |-> self, failed |-> TRUE]
    ELSE [self |-> Bitv_set(self, i, x), failed |-> FALSE]

Bitv_equal(self, v1) ==
    IF self.nbits # v1.nbits THEN [ret |-> FALSE, failed |-> FALSE]
    ELSE IF self.kind = "Small"
    THEN IF v1.kind = "Small"
         THEN [ret |-> SmallBitv_equals(self.bits, v1.bits, self.nbits),
               failed |-> FALSE]
         ELSE [ret |-> FALSE, failed |-> FALSE]
    ELSE IF v1.kind = "Big"
         THEN BigBitv_equals(self.storage, v1.storage, self.nbits)
         ELSE [ret |-> FALSE, failed |-> FALSE]

Bitv_clear(self) ==
    IF self.kind = "Small" THEN [self EXCEPT !.bits = 0]
    ELSE [self EXCEPT !.storage = [k \in DOMAIN self.storage |-> 0]]

Bitv_set_all(self) ==
    IF self.kind = "Small" THEN [self EXCEPT !.bits = AllOnes]
    ELSE [self EXCEPT !.storage = [k \in DOMAIN self.storage |-> AllOnes]]

\* invert that sets every bit
Bitv_invert_AsSetAll(self) ==
    IF self.kind = "Small" THEN [self EXCEPT !.bits = AllOnes]
    ELSE [self EXCEPT !.storage = [k \in DOMAIN self.storage |-> AllOnes]]

Bitv_invert(self) ==
    IF self.kind = "Small" THEN [self EXCEPT !.bits = BitNot(self.bits)]
    ELSE [self EXCEPT !.storage =
              [k \in DOMAIN self.storage |-> BitNot(self.storage[k])]]

\* ones: the indices i < nbits with get(i), which are visited in ascending order
Bitv_ones(self) == {i \in 0 .. self.nbits - 1 : Bitv_get(self, i)}

\* ones that scans every bit of the storage, not only those below nbits
Bitv_ones_f_WholeStorage(self, stop) ==
    LET bound == IF self.kind = "Big" THEN Len(self.storage) * WORD_BITS
                 ELSE WORD_BITS
        RECURSIVE range(_, _)
        range(c, i) ==
            IF i >= bound THEN [acc |-> c, ret |-> TRUE]
            ELSE IF ~Bitv_get(self, i) THEN range(c, i + 1)
            ELSE IF i = stop THEN [acc |-> Append(c, i), ret |-> FALSE]
            ELSE range(Append(c, i), i + 1)
    IN range(<<>>, 0)

\* ones(f) = uint::range(0, nbits, |i| !self.get(i) || f(i)), with an f that
\* answers false at the index stop: [acc |-> the calls of f, ret |-> result]
Bitv_ones_f(self, stop) ==
    LET RECURSIVE range(_, _)
        range(c, i) ==
            IF i >= self.nbits THEN [acc |-> c, ret |-> TRUE]
            ELSE IF ~Bitv_get(self, i) THEN range(c, i + 1)
            ELSE IF i = stop THEN [acc |-> Append(c, i), ret |-> FALSE]
            ELSE range(Append(c, i), i + 1)
    IN range(<<>>, 0)

\* clone: the Big arm allocates nbits / uint::bits + 1 words and copies that
\* many words out of the source, failing on an index past its end
Bitv_clone(self) ==
    IF self.kind = "Small"
    THEN [v |-> SmallRep(self.bits, self.nbits), failed |-> FALSE]
    ELSE LET len == self.nbits \div WORD_BITS + 1
         IN IF len > Len(self.storage)
            THEN [v |-> self, failed |-> TRUE]
            ELSE [v |-> BigRep([k \in 1 .. len |-> self.storage[k]], self.nbits),
                  failed |-> FALSE]

\* from_fn(len, f), f given by the set of indices it maps to true;
\* from_bools(bools) is from_fn(bools.len(), |i| bools[i])
from_fn(len, f) ==
    LET RECURSIVE loop(_, _)
        loop(v, i) == IF i >= len THEN v
                      ELSE loop(Bitv_set(v, i, i \in f), i + 1)
    IN loop(Bitv_new(len, FALSE), 0)

----------------------------------------------------------------------------
(* Bitv: conversions. A ~[u8] is a sequence of numbers below 256, a ~str a
   sequence of the characters "0" and "1", a ~[uint] a sequence of numbers. *)

\* bitv[i] as u8
BoolAsU8(x) == IF x THEN 1 ELSE 0

\* fn bit inside to_bytes
to_bytes_bit(bitv_, byte, bit) ==
    LET offset == byte * 8 + bit
    IN IF offset >= bitv_.nbits THEN 0
       ELSE BoolAsU8(Bitv_get(bitv_, offset)) * Pow2(7 - bit)

\* to_bytes with the first bit of the vector in the low-order bit of the byte
to_bytes_LowBitFirst(self) ==
    LET len == self.nbits \div 8 + (IF self.nbits % 8 = 0 THEN 0 ELSE 1)
        bit(byte, b) ==
            IF byte * 8 + b >= self.nbits THEN 0
            ELSE BoolAsU8(Bitv_get(self, byte * 8 + b)) * Pow2(b)
        RECURSIVE ors(_, _)
        ors(i, b) == IF b > 7 THEN 0 ELSE BitOr(bit(i, b), ors(i, b + 1))
    IN [k \in 1 .. len |-> ors(k - 1, 0)]

to_bytes(self) ==
    LET len == self.nbits \div 8 + (IF self.nbits % 8 = 0 THEN 0 ELSE 1)
        RECURSIVE ors(_, _)
        ors(i, b) ==
            IF b > 7 THEN 0
            ELSE BitOr(to_bytes_bit(self, i, b), ors(i, b + 1))
    IN [k \in 1 .. len |-> ors(k - 1, 0)]

\* each(f) with the f of to_str: one character is pushed per bit
to_str(self) ==
    LET RECURSIVE loop(_, _)
        loop(rs, i) ==
            IF i >= self.nbits THEN rs
            ELSE loop(Append(rs, IF Bitv_get(self, i) THEN "1" ELSE "0"), i + 1)
    IN loop(<<>>, 0)

\* eq_vec(v): the assert_eq! on the lengths comes first
eq_vec(self, v) ==
    IF self.nbits # Len(v) THEN [ret |-> FALSE, failed |-> TRUE]
    ELSE LET RECURSIVE loop(_)
             loop(i) ==
                 IF i >= self.nbits THEN TRUE
                 ELSE LET w0 == Bitv_get(self, i)
                          w1 == v[i + 1]
                      IN IF (~w0 /\ w1 # 0) \/ (w0 /\ w1 = 0) THEN FALSE
                         ELSE loop(i + 1)
         IN [ret |-> loop(0), failed |-> FALSE]

\* from_bytes that takes the low-order bit of each byte first
from_bytes_LowBitFirst(bytes) ==
    from_fn(Len(bytes) * 8,
            {i \in 0 .. Len(bytes) * 8 - 1 :
                 BitAnd(bytes[i \div 8 + 1] \div Pow2(i % 8), 1) = 1})

\* b >> (7 - offset) & 1 == 1 for every index of the new vector
from_bytes(bytes) ==
    from_fn(Len(bytes) * 8,
            {i \in 0 .. Len(bytes) * 8 - 1 :
                 LET b      == bytes[i \div 8 + 1]
                     offset == i % 8
                 IN BitAnd(b \div Pow2(7 - offset), 1) = 1})

----------------------------------------------------------------------------
(* BitvSet *)

BitvSet_new == [size |-> 0, storage |-> <<0>>]

BitvSet_from_bitv(v) ==
    LET size == WrapUint(Cardinality(Bitv_ones(v)))
    IN IF v.kind = "Big" THEN [size |-> size, storage |-> v.storage]
       ELSE [size |-> size, storage |-> <<v.bits>>]

BitvSet_capacity(self) == Len(self.storage) * WORD_BITS

\* unwrap that takes len() for the length of the vector
BitvSet_unwrap_LenAsNbits(self) == BigRep(self.storage, self.size)

BitvSet_unwrap(self) == BigRep(self.storage, BitvSet_capacity(self))

\* vec.grow(n, &initval): appends n copies of initval, as the call
\* self.v.grow_fn(key - len + 1, ..) in smallintmap.rs relies on
grow(storage, n, initval) == storage \o [k \in 1 .. n |-> initval]

RECURSIVE popcount(_)
\* the local fn nbits of other_op: the number of 1 bits of w
popcount(w) == IF w = 0 THEN 0 ELSE (w % 2) + popcount(w \div 2)

\* other_op whose size update stops at zero instead of wrapping around
BitvSet_other_op_Saturating(self, other, f) ==
    LET grown == IF BitvSet_capacity(self) < BitvSet_capacity(other)
                 THEN grow(self.storage, BitvSet_capacity(other) \div WORD_BITS, 0)
                 ELSE self.storage
        RECURSIVE loop(_, _, _)
        loop(st, size, i) ==
            IF i >= Len(other.storage) THEN [size |-> size, storage |-> st]
            ELSE LET old == st[i + 1]
                     new == ApplyOp(f, old, other.storage[i + 1])
                 IN loop([st EXCEPT ![i + 1] = new],
                         WrapUint(size + (IF popcount(new) >= popcount(old)
                                          THEN popcount(new) - popcount(old)
                                          ELSE 0)),
                         i + 1)
    IN loop(grown, self.size, 0)

\* other_op over the common words only, without growing self
BitvSet_other_op_CommonOnly(self, other, f) ==
    LET n == IF Len(self.storage) < Len(other.storage)
             THEN Len(self.storage) ELSE Len(other.storage)
        RECURSIVE loop(_, _, _)
        loop(st, size, i) ==
            IF i >= n THEN [size |-> size, storage |-> st]
            ELSE LET old == st[i + 1]
                     new == ApplyOp(f, old, other.storage[i + 1])
                 IN loop([st EXCEPT ![i + 1] = new],
                         WrapUint(size + WrapUint(popcount(new) - popcount(old))),
                         i + 1)
    IN loop(self.storage, self.size, 0)

BitvSet_other_op(self, other, f) ==
    LET grown == IF BitvSet_capacity(self) < BitvSet_capacity(other)
                 THEN grow(self.storage, BitvSet_capacity(other) \div WORD_BITS, 0)
                 ELSE self.storage
        RECURSIVE loop(_, _, _)
        loop(st, size, i) ==
            IF i >= Len(other.storage) THEN [size |-> size, storage |-> st]
            ELSE LET old == st[i + 1]
                     new == ApplyOp(f, old, other.storage[i + 1])
                 IN loop([st EXCEPT ![i + 1] = new],
                         WrapUint(size + WrapUint(popcount(new) - popcount(old))),
                         i + 1)
    IN loop(grown, self.size, 0)

\* the size update of other_op, word by word: nbits(old), nbits(new) and the
\* uint value of nbits(new) - nbits(old) that is added to size
other_op_size_steps(self, other, f) ==
    LET grown == IF BitvSet_capacity(self) < BitvSet_capacity(other)
                 THEN grow(self.storage, BitvSet_capacity(other) \div WORD_BITS, 0)
                 ELSE self.storage
    IN [k \in DOMAIN other.storage |->
           LET old == grown[k]
               new == ApplyOp(f, old, other.storage[k])
           IN [old_bits |-> popcount(old), new_bits |-> popcount(new),
               diff |-> WrapUint(popcount(new) - popcount(old))]]

BitvSet_contains(self, value) ==
    value < Len(self.storage) * WORD_BITS /\ BigBitv_get(self.storage, value)

Max(x, y) == IF x >= y THEN x ELSE y

BitvSet_insert(self, value) ==
    IF BitvSet_contains(self, value)
    THEN [self |-> self, ret |-> FALSE, failed |-> FALSE]
    ELSE LET nbits   == BitvSet_capacity(self)
             newsize == Max(value, nbits * 2) \div WORD_BITS + 1
             grows   == value >= nbits
             st      == IF grows THEN grow(self.storage, newsize, 0)
                        ELSE self.storage
         IN IF grows /\ ~(newsize > Len(self.storage))
            THEN [self |-> self, ret |-> FALSE, failed |-> TRUE]
            ELSE [self |-> [size    |-> WrapUint(self.size + 1),
                            storage |-> BigBitv_set(st, value, TRUE)],
                  ret |-> TRUE, failed |-> FALSE]

\* remove without the truncation of the trailing zero words
BitvSet_remove_NoTruncate(self, value) ==
    IF ~BitvSet_contains(self, value)
    THEN [self |-> self, ret |-> FALSE, failed |-> FALSE]
    ELSE [self |-> [size    |-> WrapUint(self.size - 1),
                    storage |-> BigBitv_set(self.storage, value, FALSE)],
          ret |-> TRUE, failed |-> FALSE]

\* remove with the truncation done before the membership test
BitvSet_remove_TruncateFirst(self, value) ==
    LET RECURSIVE trunc(_)
        trunc(i) == IF i > 1 /\ self.storage[i] = 0 THEN trunc(i - 1) ELSE i
        cut == [self EXCEPT !.storage = SubSeq(@, 1, trunc(Len(@)))]
    IN IF ~BitvSet_contains(cut, value)
       THEN [self |-> cut, ret |-> FALSE, failed |-> FALSE]
       ELSE LET st == BigBitv_set(cut.storage, value, FALSE)
                RECURSIVE trunc2(_)
                trunc2(i) == IF i > 1 /\ st[i] = 0 THEN trunc2(i - 1) ELSE i
            IN [self |-> [size    |-> WrapUint(self.size - 1),
                          storage |-> SubSeq(st, 1, trunc2(Len(st)))],
                ret |-> TRUE, failed |-> FALSE]

BitvSet_remove(self, value) ==
    IF ~BitvSet_contains(self, value)
    THEN [self |-> self, ret |-> FALSE, failed |-> FALSE]
    ELSE LET st == BigBitv_set(self.storage, value, FALSE)
             RECURSIVE trunc(_)
             trunc(i) == IF i > 1 /\ st[i] = 0 THEN trunc(i - 1) ELSE i
         IN [self |-> [size    |-> WrapUint(self.size - 1),
                       storage |-> SubSeq(st, 1, trunc(Len(st)))],
             ret |-> TRUE, failed |-> FALSE]

BitvSet_clear(self) ==
    [size |-> 0, storage |-> [k \in DOMAIN self.storage |-> 0]]

----------------------------------------------------------------------------
(* BitvSet: iteration and comparison. The callback f of an iteration is
   modelled by the value it answers false to (stop; -1 for none); calls is
   the sequence of the values it has been called with. *)

Min(x, y) == IF x < y THEN x ELSE y

\* f(&b): the call is recorded, the answer is false at the value stop
call_f(calls_, stop, b) == [acc |-> Append(calls_, b), ret |-> b # stop]

\* iterate_bits that goes on after f has answered false
iterate_bits_NoEarlyReturn(base, bits, calls_, stop) ==
    LET RECURSIVE loop(_, _)
        loop(c, i) ==
            IF i >= WORD_BITS THEN [acc |-> c, ret |-> TRUE]
            ELSE IF BitAnd(bits, ShlOne(i)) # 0
                 THEN loop(call_f(c, stop, base + i).acc, i + 1)
                 ELSE loop(c, i + 1)
    IN loop(calls_, 0)

iterate_bits(base, bits, calls_, stop) ==
    IF bits = 0 THEN [acc |-> calls_, ret |-> TRUE]
    ELSE LET RECURSIVE loop(_, _)
             loop(c, i) ==
                 IF i >= WORD_BITS THEN [acc |-> c, ret |-> TRUE]
                 ELSE IF BitAnd(bits, ShlOne(i)) # 0
                      THEN LET r == call_f(c, stop, base + i)
                           IN IF ~r.ret THEN [acc |-> r.acc, ret |-> FALSE]
                              ELSE loop(r.acc, i + 1)
                      ELSE loop(c, i + 1)
         IN loop(calls_, 0)

\* each_common(other, f): the (bit offset, w1, w2) that f is called with, in
\* the order of the calls; the caller's walk ends when its f answers false
each_common(self, other) ==
    LET min == Min(Len(self.storage), Len(other.storage))
    IN [k \in 1 .. min |->
           [i |-> (k - 1) * WORD_BITS, w1 |-> self.storage[k],
            w2 |-> other.storage[k]]]

\* each_outlier(other, f): the (mine, bit offset, w) that f is called with:
\* the words of self beyond other's length, then the words of other beyond
\* self's length
each_outlier(self, other) ==
    LET len1 == Len(self.storage)
        len2 == Len(other.storage)
        min  == Min(len1, len2)
        slice(st, mine, len) ==
            [k \in 1 .. len - min |->
                [mine |-> mine, i |-> (k - 1 + min) * WORD_BITS, w |-> st[min + k]]]
    IN slice(self.storage, TRUE, len1) \o slice(other.storage, FALSE, len2)

\* the walk of difference / symmetric_difference / union over the outliers:
\* iterate_bits on each word, with the words of other skipped unless theirs
walk_outliers(self, other, theirs, calls_, stop) ==
    LET items == each_outlier(self, other)
        RECURSIVE walk(_, _)
        walk(c, k) ==
            IF k > Len(items) THEN [acc |-> c, ret |-> TRUE]
            ELSE IF ~items[k].mine /\ ~theirs THEN walk(c, k + 1)
            ELSE LET r == iterate_bits(items[k].i, items[k].w, c, stop)
                 IN IF ~r.ret THEN r ELSE walk(r.acc, k + 1)
    IN walk(calls_, 1)

\* the walk of the four iterations over the common words: iterate_bits on
\* w1 & !w2, w1 ^ w2, w1 & w2 or w1 | w2
walk_common(self, other, g, stop) ==
    LET items == each_common(self, other)
        RECURSIVE walk(_, _)
        walk(c, k) ==
            IF k > Len(items) THEN [acc |-> c, ret |-> TRUE]
            ELSE LET r == iterate_bits(items[k].i,
                                       ApplyOp(g, items[k].w1, items[k].w2),
                                       c, stop)
                 IN IF ~r.ret THEN r ELSE walk(r.acc, k + 1)
    IN walk(<<>>, 1)

\* difference whose walk over the outliers also reports the words of other
BitvSet_difference_OtherTail(self, other, stop) ==
    LET r == walk_common(self, other, "Difference", stop)
    IN IF ~r.ret THEN r ELSE walk_outliers(self, other, TRUE, r.acc, stop)

\* the four iterations answer [acc |-> the calls of f, ret |-> the result]
BitvSet_difference(self, other, stop) ==
    LET r == walk_common(self, other, "Difference", stop)
    IN IF ~r.ret THEN r ELSE walk_outliers(self, other, FALSE, r.acc, stop)

BitvSet_symmetric_difference(self, other, stop) ==
    LET r == walk_common(self, other, "Xor", stop)
    IN IF ~r.ret THEN r ELSE walk_outliers(self, other, TRUE, r.acc, stop)

BitvSet_intersection(self, other, stop) ==
    walk_common(self, other, "Intersect", stop)

BitvSet_union(self, other, stop) ==
    LET r == walk_common(self, other, "Union", stop)
    IN IF ~r.ret THEN r ELSE walk_outliers(self, other, TRUE, r.acc, stop)

\* is_subset that looks at the common words only
BitvSet_is_subset_CommonOnly(self, other) ==
    \A k \in DOMAIN each_common(self, other) :
        LET c == each_common(self, other)[k]
        IN BitAnd(c.w1, c.w2) = c.w1

\* the first return reached in the two for loops, true when none is
BitvSet_is_subset(self, other) ==
    LET common   == each_common(self, other)
        outliers == each_outlier(self, other)
        RECURSIVE walk2(_)
        walk2(k) ==
            IF k > Len(outliers) THEN TRUE
            ELSE IF ~outliers[k].mine THEN TRUE
            ELSE IF outliers[k].w # 0 THEN FALSE
            ELSE walk2(k + 1)
        RECURSIVE walk1(_)
        walk1(k) ==
            IF k > Len(common) THEN walk2(1)
            ELSE IF BitAnd(common[k].w1, common[k].w2) # common[k].w1 THEN FALSE
            ELSE walk1(k + 1)
    IN walk1(1)

BitvSet_is_superset(self, other) == BitvSet_is_subset(other, self)

\* each(blk): iterate_bits on every word in index order, until blk answers
\* false
BitvSet_each(self, stop) ==
    LET RECURSIVE walk(_, _)
        walk(c, k) ==
            IF k > Len(self.storage) THEN [acc |-> c, ret |-> TRUE]
            ELSE LET r == iterate_bits((k - 1) * WORD_BITS, self.storage[k],
                                       c, stop)
                 IN IF ~r.ret THEN r ELSE walk(r.acc, k + 1)
    IN walk(<<>>, 1)

\* eq that compares the sizes only
BitvSet_eq_SizeOnly(self, other) == self.size = other.size

\* eq: the sizes, then the common words, then the outliers
BitvSet_eq(self, other) ==
    IF self.size # other.size THEN FALSE
    ELSE LET common   == each_common(self, other)
             outliers == each_outlier(self, other)
         IN IF \E k \in DOMAIN common : common[k].w1 # common[k].w2 THEN FALSE
            ELSE IF \E k \in DOMAIN outliers : outliers[k].w # 0 THEN FALSE
            ELSE TRUE

BitvSet_ne(self, other) == ~BitvSet_eq(self, other)

----------------------------------------------------------------------------
(* Inputs: values built by the public constructors *)

\* the outcomes of 1 << uint::bits
ShlModes == {"wrap", "zero"}


\* Bitv::new(n, init) followed by set(i, ~init) for every i in flipped
BitvBuilt(n, init, flipped) ==
    LET RECURSIVE loop(_, _)
        loop(v, i) == IF i >= n THEN v
                      ELSE loop(IF i \in flipped THEN Bitv_set(v, i, ~init) ELSE v,
                                i + 1)
    IN loop(Bitv_new(n, init), 0)

BitvInputs ==
    {BitvBuilt(n, init, f) : n \in 0 .. MaxNbits, init \in BOOLEAN,
                             f \in SUBSET (0 .. MaxNbits - 1)}

\* the operands of the binary operations: new(n, init), as it is or with bit 0
\* set to the other value, and the sets built from them
OperandBitvs ==
    {BitvBuilt(n, init, f) : n \in 0 .. MaxNbits, init \in BOOLEAN,
                             f \in {{}, {0}}}

OtherSets == {BitvSet_new} \cup {BitvSet_from_bitv(v) : v \in OperandBitvs}

NoSet == [size |-> 0, storage |-> <<>>]
NoBitv == [kind |-> "None", bits |-> 0, storage |-> <<>>, nbits |-> 0]
NoOp == [name |-> "init", v |-> 0, f |-> "", other |-> NoSet]

----------------------------------------------------------------------------
(* Spec: one BitvSet and the operations on it *)

\* BitvSet::new() or BitvSet::from_bitv(v)
Init ==
    /\ shl_overflow = "unevaluated"   \* no operation of BitvSet shifts by uint::bits
    /\ bitv = NoBitv
    /\ \/ /\ set = BitvSet_new
          /\ op = [NoOp EXCEPT !.name = "new"]
       \/ \E v \in BitvInputs :
             /\ set = BitvSet_from_bitv(v)
             /\ op = [NoOp EXCEPT !.name = "from_bitv", !.other = v]
    /\ pre = NoSet
    /\ operand = NoSet
    /\ ret = FALSE
    /\ calls = <<>>
    /\ failed = FALSE

Insert ==
    /\ ~failed
    /\ \E v \in 0 .. MaxVal :
          LET r == BitvSet_insert(set, v)
          IN /\ Len(r.self.storage) <= MaxWords
             /\ set' = r.self
             /\ ret' = r.ret
             /\ failed' = r.failed
             /\ op' = [NoOp EXCEPT !.name = "insert", !.v = v]
    /\ pre' = set
    /\ operand' = NoSet
    /\ calls' = <<>>
    /\ UNCHANGED <<shl_overflow, bitv>>

Remove ==
    /\ ~failed
    /\ \E v \in 0 .. MaxVal :
          LET r == BitvSet_remove(set, v)
          IN /\ set' = r.self
             /\ ret' = r.ret
             /\ failed' = r.failed
             /\ op' = [NoOp EXCEPT !.name = "remove", !.v = v]
    /\ pre' = set
    /\ operand' = NoSet
    /\ calls' = <<>>
    /\ UNCHANGED <<shl_overflow, bitv>>

\* contains(&v): &self is only read
Contains ==
    /\ ~failed
    /\ \E v \in 0 .. MaxVal :
          /\ ret' = BitvSet_contains(set, v)
          /\ op' = [NoOp EXCEPT !.name = "contains", !.v = v]
    /\ pre' = set
    /\ operand' = NoSet
    /\ calls' = <<>>
    /\ UNCHANGED <<shl_overflow, bitv, set, failed>>

Clear ==
    /\ ~failed
    /\ set' = BitvSet_clear(set)
    /\ pre' = set
    /\ operand' = NoSet
    /\ op' = [NoOp EXCEPT !.name = "clear"]
    /\ ret' = FALSE
    /\ calls' = <<>>
    /\ UNCHANGED <<shl_overflow, bitv, failed>>

\* union_with, intersect_with, difference_with, symmetric_difference_with
OtherOp(name, f) ==
    /\ ~failed
    /\ \E other \in OtherSets :
          LET r == BitvSet_other_op(set, other, f)
          IN /\ Len(r.storage) <= MaxWords
             /\ set' = r
             /\ operand' = other   \* other: &BitvSet is only read
             /\ op' = [NoOp EXCEPT !.name = name, !.f = f, !.other = other]
    /\ pre' = set
    /\ ret' = FALSE
    /\ calls' = <<>>
    /\ UNCHANGED <<shl_overflow, bitv, failed>>

UnionWith == OtherOp("union_with", "Union")
IntersectWith == OtherOp("intersect_with", "Intersect")
DifferenceWith == OtherOp("difference_with", "Difference")
SymmetricDifferenceWith == OtherOp("symmetric_difference_with", "Xor")

Next ==
    \/ Insert
    \/ Remove
    \/ Contains
    \/ Clear
    \/ UnionWith
    \/ IntersectWith
    \/ DifferenceWith
    \/ SymmetricDifferenceWith

Spec == Init /\ [][Next]_vars

----------------------------------------------------------------------------
(* SpecBitv: one Bitv and the operations on it *)

\* the sets consumed by unwrap: built by new(), new() and one insert, or
\* from_bitv, kept to the capacities the model's vectors have
SetInputs ==
    {s \in {BitvSet_new}
           \cup {BitvSet_insert(BitvSet_new, v).self : v \in 0 .. MaxVal}
           \cup {BitvSet_from_bitv(v) : v \in OperandBitvs} :
        BitvSet_capacity(s) <= MaxNbits}

\* the right-hand operands of union / intersect / assign / difference / equal
Operands == OperandBitvs \cup {BitvSet_unwrap(s) : s \in SetInputs}

\* Bitv::new(n, init), from_fn(n, f) (from_bools, from_bytes go through
\* from_fn) or BitvSet::unwrap(s)
InitBitv ==
    /\ shl_overflow \in ShlModes
    /\ set = NoSet
    /\ \/ \E n \in 0 .. MaxNbits, init \in BOOLEAN :
             /\ bitv = Bitv_new(n, init)
             /\ op = [NoOp EXCEPT !.name = "new", !.v = n]
       \/ \E n \in 0 .. MaxNbits, f \in SUBSET (0 .. MaxNbits - 1) :
             /\ bitv = from_fn(n, f)
             /\ op = [NoOp EXCEPT !.name = "from_fn", !.v = n]
       \/ \E s \in SetInputs :
             /\ bitv = BitvSet_unwrap(s)
             /\ op = [NoOp EXCEPT !.name = "unwrap", !.other = s]
    /\ pre = NoBitv
    /\ operand = NoBitv
    /\ ret = FALSE
    /\ calls = <<>>
    /\ failed = FALSE

\* set(i, x)
BitvSetBit ==
    /\ ~failed
    /\ \E i \in 0 .. MaxNbits, x \in BOOLEAN :
          LET r == Bitv_set_asserted(bitv, i, x)
          IN /\ bitv' = r.self
             /\ failed' = r.failed
             /\ op' = [NoOp EXCEPT !.name = "set", !.v = i]
             /\ ret' = x
    /\ pre' = bitv
    /\ operand' = NoBitv
    /\ calls' = <<>>
    /\ UNCHANGED <<shl_overflow, set>>

\* get(i)
BitvGet ==
    /\ ~failed
    /\ \E i \in 0 .. MaxNbits :
          LET r == Bitv_get_asserted(bitv, i)
          IN /\ ret' = r.ret
             /\ failed' = r.failed
             /\ op' = [NoOp EXCEPT !.name = "get", !.v = i]
    /\ pre' = bitv
    /\ operand' = NoBitv
    /\ calls' = <<>>
    /\ UNCHANGED <<shl_overflow, set, bitv>>

BitvClear ==
    /\ ~failed
    /\ bitv' = Bitv_clear(bitv)
    /\ pre' = bitv
    /\ operand' = NoBitv
    /\ op' = [NoOp EXCEPT !.name = "clear"]
    /\ ret' = FALSE
    /\ calls' = <<>>
    /\ UNCHANGED <<shl_overflow, set, failed>>

BitvSetAll ==
    /\ ~failed
    /\ bitv' = Bitv_set_all(bitv)
    /\ pre' = bitv
    /\ operand' = NoBitv
    /\ op' = [NoOp EXCEPT !.name = "set_all"]
    /\ ret' = FALSE
    /\ calls' = <<>>
    /\ UNCHANGED <<shl_overflow, set, failed>>

BitvInvert ==
    /\ ~failed
    /\ bitv' = Bitv_invert(bitv)
    /\ pre' = bitv
    /\ operand' = NoBitv
    /\ op' = [NoOp EXCEPT !.name = "invert"]
    /\ ret' = FALSE
    /\ calls' = <<>>
    /\ UNCHANGED <<shl_overflow, set, failed>>

\* union, intersect, assign, difference
BitvDoOp(name, f) ==
    /\ ~failed
    /\ \E other \in Operands :
          LET r == Bitv_do_op(bitv, f, other)
          IN /\ bitv' = r.self
             /\ ret' = r.ret
             /\ failed' = r.failed
             /\ operand' = other   \* other: &Bitv is only read
             /\ op' = [NoOp EXCEPT !.name = name, !.f = f, !.other = other]
    /\ pre' = bitv
    /\ calls' = <<>>
    /\ UNCHANGED <<shl_overflow, set>>

BitvUnion == BitvDoOp("union", "Union")
BitvIntersect == BitvDoOp("intersect", "Intersect")
BitvAssign == BitvDoOp("assign", "Assign")
BitvDifference == BitvDoOp("difference", "Difference")

\* v.clone(): the copy becomes the vector under test
BitvClone ==
    /\ ~failed
    /\ LET r == Bitv_clone(bitv)
       IN /\ bitv' = r.v
          /\ failed' = r.failed
    /\ pre' = bitv
    /\ operand' = NoBitv
    /\ op' = [NoOp EXCEPT !.name = "clone"]
    /\ ret' = FALSE
    /\ calls' = <<>>
    /\ UNCHANGED <<shl_overflow, set>>

BitvEqual ==
    /\ ~failed
    /\ \E other \in Operands :
          LET r == Bitv_equal(bitv, other)
          IN /\ ret' = r.ret
             /\ failed' = r.failed
             /\ operand' = other
             /\ op' = [NoOp EXCEPT !.name = "equal", !.other = other]
    /\ pre' = bitv
    /\ calls' = <<>>
    /\ UNCHANGED <<shl_overflow, set, bitv>>

\* ones(f); f answers false at the index stop, -1: never
BitvOnes ==
    /\ ~failed
    /\ \E stop \in -1 .. MaxNbits - 1 :
          LET r == Bitv_ones_f(bitv, stop)
          IN /\ calls' = r.acc
             /\ ret' = r.ret
             /\ op' = [NoOp EXCEPT !.name = "ones", !.v = stop]
    /\ pre' = bitv
    /\ operand' = NoBitv
    /\ UNCHANGED <<shl_overflow, set, bitv, failed>>

BitvIsTrue ==
    /\ ~failed
    /\ ret' = Bitv_is_true(bitv)
    /\ op' = [NoOp EXCEPT !.name = "is_true"]
    /\ pre' = bitv
    /\ operand' = NoBitv
    /\ calls' = <<>>
    /\ UNCHANGED <<shl_overflow, set, bitv, failed>>

BitvIsFalse ==
    /\ ~failed
    /\ ret' = Bitv_is_false(bitv)
    /\ op' = [NoOp EXCEPT !.name = "is_false"]
    /\ pre' = bitv
    /\ operand' = NoBitv
    /\ calls' = <<>>
    /\ UNCHANGED <<shl_overflow, set, bitv, failed>>

NextBitv ==
    \/ BitvSetBit
    \/ BitvGet
    \/ BitvClear
    \/ BitvSetAll
    \/ BitvInvert
    \/ BitvUnion
    \/ BitvIntersect
    \/ BitvAssign
    \/ BitvDifference
    \/ BitvClone
    \/ BitvEqual
    \/ BitvOnes
    \/ BitvIsTrue
    \/ BitvIsFalse

SpecBitv == InitBitv /\ [][NextBitv]_vars

----------------------------------------------------------------------------
(* SpecPair: two BitvSets and the operations that read both *)

\* the sets of a pair: new(), new() and one insert, or from_bitv
PairSets ==
    {BitvSet_new}
        \cup {BitvSet_insert(BitvSet_new, v).self : v \in 0 .. MaxVal}
        \cup {BitvSet_from_bitv(v) : v \in BitvInputs}

\* the second set of a pair: new(), new() and one insert, or from_bitv of
\* new(n, init) as it is or with bit 0 set to the other value
PairOthers ==
    OtherSets \cup {BitvSet_insert(BitvSet_new, v).self : v \in 0 .. MaxVal}

\* the values f may answer false to; -1: f always answers true
Stops == -1 .. MaxVal

InitPair ==
    /\ shl_overflow = "unevaluated"
    /\ bitv = NoBitv
    /\ set \in PairSets
    /\ operand \in PairOthers
    /\ op = NoOp
    /\ pre = NoSet
    /\ ret = FALSE
    /\ calls = <<>>
    /\ failed = FALSE

\* the frame of an operation on (&self, &other)
ReadsPair(name, v) ==
    /\ op' = [NoOp EXCEPT !.name = name, !.v = v, !.other = operand]
    /\ pre' = set
    /\ UNCHANGED <<shl_overflow, bitv, set, operand, failed>>

Intersection ==
    \E stop \in Stops :
        LET r == BitvSet_intersection(set, operand, stop)
        IN calls' = r.acc /\ ret' = r.ret /\ ReadsPair("intersection", stop)

Difference ==
    \E stop \in Stops :
        LET r == BitvSet_difference(set, operand, stop)
        IN calls' = r.acc /\ ret' = r.ret /\ ReadsPair("difference", stop)

Union ==
    \E stop \in Stops :
        LET r == BitvSet_union(set, operand, stop)
        IN calls' = r.acc /\ ret' = r.ret /\ ReadsPair("union", stop)

SymmetricDifference ==
    \E stop \in Stops :
        LET r == BitvSet_symmetric_difference(set, operand, stop)
        IN /\ calls' = r.acc
           /\ ret' = r.ret
           /\ ReadsPair("symmetric_difference", stop)

IsSubset ==
    /\ ret' = BitvSet_is_subset(set, operand)
    /\ calls' = <<>>
    /\ ReadsPair("is_subset", 0)

IsSuperset ==
    /\ ret' = BitvSet_is_superset(set, operand)
    /\ calls' = <<>>
    /\ ReadsPair("is_superset", 0)

\* each(blk) on the first set of the pair
Each ==
    \E stop \in Stops :
        LET r == BitvSet_each(set, stop)
        IN calls' = r.acc /\ ret' = r.ret /\ ReadsPair("each", stop)

NextPair ==
    \/ Intersection
    \/ Difference
    \/ Union
    \/ SymmetricDifference
    \/ IsSubset
    \/ IsSuperset
    \/ Each

SpecPair == InitPair /\ [][NextPair]_vars

----------------------------------------------------------------------------
(* SpecConv: one Bitv, built by new, from_fn or from_bytes, and its
   conversions *)

\* the u8 values of the byte sequences given to from_bytes
ByteValues == {0, 1, 32, 128, 182, 255}

RECURSIVE SeqsUpTo(_, _)
\* the sequences over S of length 0 .. n
SeqsUpTo(S, n) ==
    IF n = 0 THEN {<<>>}
    ELSE LET shorter == SeqsUpTo(S, n - 1)
         IN shorter \cup {Append(q, x) : q \in shorter, x \in S}

ByteSeqs == SeqsUpTo(ByteValues, MaxBytes)

InitConv ==
    /\ shl_overflow = "unevaluated"   \* no conversion shifts by uint::bits
    /\ set = NoSet
    /\ \/ \E n \in 0 .. MaxConvBits, init \in BOOLEAN :
             /\ bitv = Bitv_new(n, init)
             /\ op = [NoOp EXCEPT !.name = "new", !.v = n, !.other = init]
       \/ \E n \in 0 .. MaxConvBits, f \in SUBSET (0 .. MaxConvBits - 1) :
             /\ f \subseteq 0 .. n - 1
             /\ bitv = from_fn(n, f)
             /\ op = [NoOp EXCEPT !.name = "from_fn", !.v = n, !.other = f]
       \/ \E b \in ByteSeqs :
             /\ bitv = from_bytes(b)
             /\ op = [NoOp EXCEPT !.name = "from_bytes", !.other = b]
    /\ pre = NoBitv
    /\ operand = NoBitv
    /\ ret = FALSE
    /\ calls = <<>>
    /\ failed = FALSE

\* the frame of an operation on &self
ReadsBitv(name, arg) ==
    /\ ~failed
    /\ op' = [NoOp EXCEPT !.name = name, !.other = arg]
    /\ pre' = bitv
    /\ operand' = NoBitv
    /\ calls' = <<>>
    /\ UNCHANGED <<shl_overflow, set, bitv>>

ToBytes ==
    /\ ret' = to_bytes(bitv)
    /\ failed' = FALSE
    /\ ReadsBitv("to_bytes", <<>>)

ToStr ==
    /\ ret' = to_str(bitv)
    /\ failed' = FALSE
    /\ ReadsBitv("to_str", <<>>)

\* eq_vec against zeros or ones, of the vector's length or one more
EqVec ==
    \E x \in {0, 1}, len \in {bitv.nbits, bitv.nbits + 1} :
        LET v == [k \in 1 .. len |-> x]
            r == eq_vec(bitv, v)
        IN /\ ret' = r.ret
           /\ failed' = r.failed
           /\ ReadsBitv("eq_vec", v)

NextConv ==
    \/ BitvSetAll
    \/ BitvInvert
    \/ ToBytes
    \/ ToStr
    \/ EqVec

SpecConv == InitConv /\ [][NextConv]_vars

----------------------------------------------------------------------------
(* SpecBuilt: two BitvSets built from new() by insert, remove, clear and
   union_with, and their comparison *)

\* new() followed by insert(v) for the values v of S in ascending order
InsertedFrom(self, S) ==
    LET RECURSIVE loop(_, _)
        loop(s, v) ==
            IF v > MaxVal THEN s
            ELSE loop(IF v \in S THEN BitvSet_insert(s, v).self ELSE s, v + 1)
    IN loop(self, 0)

Inserted(S) == InsertedFrom(BitvSet_new, S)

\* the same values held in as few words as remove leaves: MaxVal is inserted
\* first and removed last
Trimmed(S) ==
    BitvSet_remove(InsertedFrom(BitvSet_insert(BitvSet_new, MaxVal).self, S),
                   MaxVal).self

\* the same values in a set that was new() before union_with
Merged(S) == BitvSet_other_op(BitvSet_new, Inserted(S), "Union")

BuiltSets ==
    {Inserted(S) : S \in SUBSET (0 .. MaxVal)}
        \cup {Trimmed(S) : S \in SUBSET (0 .. MaxVal - 1)}
        \cup {Merged(S) : S \in SUBSET (0 .. MaxVal)}
        \cup {BitvSet_clear(Inserted({v})) : v \in 0 .. MaxVal}

InitBuilt ==
    /\ shl_overflow = "unevaluated"
    /\ bitv = NoBitv
    /\ set \in BuiltSets
    /\ operand \in BuiltSets
    /\ op = NoOp
    /\ pre = NoSet
    /\ ret = FALSE
    /\ calls = <<>>
    /\ failed = FALSE

\* a == b
Eq ==
    /\ ret' = BitvSet_eq(set, operand)
    /\ calls' = <<>>
    /\ ReadsPair("eq", 0)

\* a != b
Ne ==
    /\ ret' = BitvSet_ne(set, operand)
    /\ calls' = <<>>
    /\ ReadsPair("ne", 0)

NextBuilt ==
    \/ Eq
    \/ Ne

SpecBuilt == InitBuilt /\ [][NextBuilt]_vars

----------------------------------------------------------------------------
(* Properties *)

\* every value that can be a member of a modelled set, and one beyond
Values == 0 .. WORD_BITS * MaxWords

RECURSIVE StorageOnes(_)
\* the number of 1 bits in a word array
StorageOnes(st) ==
    IF st = <<>> THEN 0 ELSE popcount(Head(st)) + StorageOnes(Tail(st))

VectorOps == {"union", "intersect", "assign", "difference"}

\* what union / intersect / assign / difference make of one bit
ExpectedBit(f, x, y) ==
    CASE f = "Union"      -> x \/ y
      [] f = "Intersect"  -> x /\ y
      [] f = "Assign"     -> y
      [] f = "Difference" -> x /\ ~y

\* C1 (Spec): in every reachable state of a BitvSet, len() is the number of
\* 1 bits in the whole word array.
C1_LenIsPopcount == set.size = StorageOnes(set.storage)

\* C2 (SpecBitv): union / intersect / assign / difference between two vectors
\* of equal nbits complete without failure, leave bit i of self as the OR /
\* AND / AND-NOT / copy of the two bits for every i < nbits, and return true
\* iff a bit of self below nbits changed.
C2_EqualLengthOps ==
    (op.name \in VectorOps /\ pre.nbits = op.other.nbits) =>
        /\ ~failed
        /\ \A i \in 0 .. pre.nbits - 1 :
              Bitv_get(bitv, i)
                  = ExpectedBit(op.f, Bitv_get(pre, i), Bitv_get(op.other, i))
        /\ ret = (\E i \in 0 .. pre.nbits - 1 :
                      Bitv_get(bitv, i) # Bitv_get(pre, i))

\* C3 (SpecBitv): clone completes without failure for a vector of any length
\* and returns a vector with the same nbits and the same bits below nbits.
C3_CloneCopies ==
    (op.name = "clone") =>
        /\ ~failed
        /\ bitv.nbits = pre.nbits
        /\ \A i \in 0 .. pre.nbits - 1 : Bitv_get(bitv, i) = Bitv_get(pre, i)

\* C4 (Spec): insert(v) on a set without v returns true, makes v a member,
\* increases len() by exactly 1 and keeps every other membership; insert(v) on
\* a set with v returns false and changes neither membership, len() nor
\* capacity().
C4_Insert ==
    (op.name = "insert") =>
        IF BitvSet_contains(pre, op.v)
        THEN /\ ~ret
             /\ ~failed
             /\ set.size = pre.size
             /\ BitvSet_capacity(set) = BitvSet_capacity(pre)
             /\ \A u \in Values : BitvSet_contains(set, u) = BitvSet_contains(pre, u)
        ELSE /\ ret
             /\ ~failed
             /\ BitvSet_contains(set, op.v)
             /\ set.size = pre.size + 1
             /\ \A u \in Values \ {op.v} :
                   BitvSet_contains(set, u) = BitvSet_contains(pre, u)

\* C5 (Spec): remove(v) on a set with v returns true, makes v a non-member,
\* decreases len() by exactly 1 and keeps every other membership, also when
\* trailing words are truncated.
C5_Remove ==
    (op.name = "remove" /\ BitvSet_contains(pre, op.v)) =>
        /\ ret
        /\ ~failed
        /\ ~BitvSet_contains(set, op.v)
        /\ set.size = pre.size - 1
        /\ \A u \in Values \ {op.v} :
              BitvSet_contains(set, u) = BitvSet_contains(pre, u)

\* C6 (Spec): after a.intersect_with(b), a contains v iff v was in a before
\* and v is in b, whatever the two capacities are.
C6_IntersectWith ==
    (op.name = "intersect_with") =>
        \A v \in Values :
            BitvSet_contains(set, v)
                = (BitvSet_contains(pre, v) /\ BitvSet_contains(op.other, v))

\* C7 (Spec): after a.union_with(b), a.difference_with(b) or
\* a.symmetric_difference_with(b), a contains v iff v was in a or is in b,
\* was in a and is not in b, or was in exactly one of them, respectively, for
\* any two capacities; b is unchanged.
C7_UnionDifferenceSymmetric ==
    /\ (op.name = "union_with") =>
          /\ operand = op.other
          /\ \A v \in Values :
                BitvSet_contains(set, v)
                    = (BitvSet_contains(pre, v) \/ BitvSet_contains(op.other, v))
    /\ (op.name = "difference_with") =>
          /\ operand = op.other
          /\ \A v \in Values :
                BitvSet_contains(set, v)
                    = (BitvSet_contains(pre, v) /\ ~BitvSet_contains(op.other, v))
    /\ (op.name = "symmetric_difference_with") =>
          /\ operand = op.other
          /\ \A v \in Values :
                BitvSet_contains(set, v)
                    = (BitvSet_contains(pre, v) # BitvSet_contains(op.other, v))

\* a union_with whose operand is longer than self and brings a value at or
\* above self's old capacity, while self keeps a value the operand lacks
C7_Witness ==
    /\ op.name = "union_with"
    /\ Len(pre.storage) < Len(op.other.storage)
    /\ \E v \in Values : /\ v >= BitvSet_capacity(pre)
                         /\ BitvSet_contains(op.other, v)
                         /\ BitvSet_contains(set, v)
    /\ \E v \in Values : /\ BitvSet_contains(pre, v)
                         /\ ~BitvSet_contains(op.other, v)
                         /\ BitvSet_contains(set, v)

\* C8 (SpecBitv): union / intersect / assign / difference between vectors of
\* differing nbits end in the fatal failure, return nothing, and leave self
\* as it was.
C8_DifferingLengthsFail ==
    (op.name \in VectorOps /\ pre.nbits # op.other.nbits) =>
        /\ failed
        /\ bitv = pre

\* a failed assign between two Small vectors of differing nbits whose bits
\* below the shorter length differ
C8_Witness ==
    /\ op.name = "assign"
    /\ pre.kind = "Small"
    /\ op.other.kind = "Small"
    /\ pre.nbits # op.other.nbits
    /\ pre.bits # op.other.bits
    /\ failed

\* C9 (SpecBitv): equal returns false when the lengths differ; for equal
\* lengths and equal representations it returns true iff the bits below nbits
\* agree, whatever the storage bits at and above nbits.
C9_Equal ==
    (op.name = "equal") =>
        IF pre.nbits # op.other.nbits
        THEN ~failed /\ ~ret
        ELSE (pre.kind = op.other.kind) =>
                /\ ~failed
                /\ ret = (\A i \in 0 .. pre.nbits - 1 :
                              Bitv_get(pre, i) = Bitv_get(op.other, i))

\* C10 (SpecBitv): every Bitv built by the public operations is Small iff its
\* nbits <= uint::bits, and Big otherwise.
C10_RepresentationByLength ==
    (bitv.kind = "Small") <=> (bitv.nbits <= WORD_BITS)

\* the 0-based index of the highest non-zero word of a word array, -1 when every
\* word is zero
HighestNonZeroWord(st) ==
    LET nz == {k \in DOMAIN st : st[k] # 0}
    IN IF nz = {} THEN -1 ELSE (CHOOSE k \in nz : \A j \in nz : j <= k) - 1

\* a word array with bit v, which is set, cleared
WithoutBit(st, v) ==
    [k \in DOMAIN st |->
        IF k = v \div WORD_BITS + 1 THEN st[k] - Pow2(v % WORD_BITS) ELSE st[k]]

\* C11 (Spec): after every successful remove the word array is the array
\* before it with the bit cleared, cut to max(1, 1 + index of its highest
\* non-zero word) words; when no bit is left the capacity is exactly
\* uint::bits; and there is at least one word in every reachable state.
C11_RemoveTruncates ==
    /\ Len(set.storage) >= 1
    /\ (op.name = "remove" /\ ret) =>
          LET cleared == WithoutBit(pre.storage, op.v)
              count == Max(1, 1 + HighestNonZeroWord(cleared))
          IN /\ ~failed
             /\ Len(set.storage) = count
             /\ set.storage = SubSeq(cleared, 1, count)
             /\ (\A k \in DOMAIN cleared : cleared[k] = 0) =>
                    BitvSet_capacity(set) = WORD_BITS

\* a successful remove of the only value of a set of more than two words,
\* which leaves one word
C11_Witness ==
    /\ op.name = "remove"
    /\ ret
    /\ Len(pre.storage) > 2
    /\ set.storage = <<0>>
    /\ BitvSet_capacity(set) = WORD_BITS

\* C12 (Spec): insert(v) of an absent v >= capacity() leaves exactly
\* max(v, 2 * old capacity) / uint::bits + 1 words, the previous words
\* unchanged and the added words zero except for bit v; insert(v) of an absent
\* v < capacity() leaves the word count unchanged.
C12_InsertGrowth ==
    (op.name = "insert" /\ ~BitvSet_contains(pre, op.v)) =>
        IF op.v >= BitvSet_capacity(pre)
        THEN /\ ~failed
             /\ Len(set.storage)
                    = Max(op.v, 2 * BitvSet_capacity(pre)) \div WORD_BITS + 1
             /\ \A k \in DOMAIN set.storage :
                    set.storage[k]
                        = IF k <= Len(pre.storage) THEN pre.storage[k]
                          ELSE IF k = op.v \div WORD_BITS + 1
                               THEN Pow2(op.v % WORD_BITS)
                          ELSE 0
        ELSE Len(set.storage) = Len(pre.storage)

SetOps ==
    {"union_with", "intersect_with", "difference_with",
     "symmetric_difference_with"}

\* C13 (Spec): after a.union_with(b), a.intersect_with(b), a.difference_with(b)
\* or a.symmetric_difference_with(b) the capacity of a is the larger of a's
\* capacity before and b's capacity.
C13_OtherOpCapacity ==
    (op.name \in SetOps) =>
        BitvSet_capacity(set)
            = Max(BitvSet_capacity(pre), BitvSet_capacity(op.other))

\* value v has its bit set in a word the array has
HasBit(st, v) ==
    /\ v \div WORD_BITS + 1 \in DOMAIN st
    /\ (st[v \div WORD_BITS + 1] \div Pow2(v % WORD_BITS)) % 2 = 1

\* C14 (Spec): contains(v) and remove(v) of a value that is absent, also one
\* at or above capacity(), return false without failure and leave the word
\* array, capacity() and len() as they were.
C14_AbsentValue ==
    (op.name \in {"contains", "remove"} /\ ~HasBit(pre.storage, op.v)) =>
        /\ ~ret
        /\ ~failed
        /\ set.storage = pre.storage
        /\ BitvSet_capacity(set) = BitvSet_capacity(pre)
        /\ set.size = pre.size

\* an unsuccessful remove of a value at or above capacity() from a set whose
\* last word is zero
C14_Witness ==
    /\ op.name = "remove"
    /\ op.v >= BitvSet_capacity(pre)
    /\ Len(pre.storage) > 1
    /\ pre.storage[Len(pre.storage)] = 0
    /\ ~ret
    /\ set = pre

\* the values of a set of numbers in ascending order
RECURSIVE Ascending(_)
Ascending(S) ==
    IF S = {} THEN <<>>
    ELSE LET m == CHOOSE x \in S : \A y \in S : x <= y
         IN <<m>> \o Ascending(S \ {m})

\* a sequence of calls cut after the first call f answers false to
RECURSIVE UpToStop(_, _)
UpToStop(seq, stop) ==
    IF seq = <<>> THEN <<>>
    ELSE IF Head(seq) = stop THEN <<stop>>
    ELSE <<Head(seq)>> \o UpToStop(Tail(seq), stop)

\* the members of a set, by the bits of its word array
Members(s) == {v \in Values : HasBit(s.storage, v)}

\* what an iteration over the values S does with a callback that answers
\* false at op.v: one call per value in ascending order up to and including
\* op.v, and the result false iff f answered false
IteratesOver(S) ==
    /\ calls = UpToStop(Ascending(S), op.v)
    /\ ret = (op.v \notin S)
    /\ ~failed
    /\ set = pre
    /\ operand = op.other

\* C15 (SpecPair): a.intersection(b, f) calls f once for each value in both a
\* and b and for no other value, in ascending order, and stops with the
\* result false as soon as f answers false.
C15_Intersection ==
    (op.name = "intersection") =>
        IteratesOver(Members(set) \cap Members(operand))

\* an intersection of sets of differing word counts, the first with values
\* the second lacks, that f stops after the first of two common values
C15_Witness ==
    /\ op.name = "intersection"
    /\ Len(set.storage) # Len(operand.storage)
    /\ Members(set) \ Members(operand) # {}
    /\ Cardinality(Members(set) \cap Members(operand)) = 2
    /\ Len(calls) = 1
    /\ ~ret

\* C16 (SpecPair): a.difference(b, f), a.union(b, f) and
\* a.symmetric_difference(b, f) call f once for every value of a \ b, of
\* a \cup b and of the values in exactly one of a and b, in ascending order
\* and for no other value, whichever of a and b has the longer word array.
C16_DifferenceUnionSymmetric ==
    /\ (op.name = "difference") =>
          IteratesOver(Members(set) \ Members(operand))
    /\ (op.name = "union") =>
          IteratesOver(Members(set) \cup Members(operand))
    /\ (op.name = "symmetric_difference") =>
          IteratesOver((Members(set) \ Members(operand))
                           \cup (Members(operand) \ Members(set)))

\* a complete difference where b has the longer word array and values in its
\* tail, and a has a value b lacks
C16_Witness ==
    /\ op.name = "difference"
    /\ Len(set.storage) < Len(operand.storage)
    /\ \E v \in Members(operand) : v >= BitvSet_capacity(set)
    /\ calls # <<>>
    /\ ret

\* C17 (SpecPair): a.is_subset(b) is true iff every value of a is a value of
\* b, whatever the word counts, and a.is_superset(b) is b.is_subset(a).
C17_Subset ==
    /\ (op.name = "is_subset") =>
          /\ ret = (Members(set) \subseteq Members(operand))
          /\ ~failed /\ set = pre /\ operand = op.other
    /\ (op.name = "is_superset") =>
          /\ ret = (Members(operand) \subseteq Members(set))
          /\ ret = BitvSet_is_subset(operand, set)
          /\ ~failed /\ set = pre /\ operand = op.other

\* a non-empty a with more words than b, the extra words zero, is a subset
C17_Witness ==
    /\ op.name = "is_subset"
    /\ Len(set.storage) > Len(operand.storage)
    /\ Members(set) # {}
    /\ ret

\* C18 (SpecConv): v.to_bytes() has ceil(nbits / 8) bytes, and bit b (0 the
\* most significant) of byte k is 1 iff k * 8 + b < nbits and get(k * 8 + b)
\* is true, whatever the storage bits at and above nbits are.
C18_ToBytes ==
    (op.name = "to_bytes") =>
        /\ ~failed
        /\ bitv = pre
        /\ Len(ret) = (bitv.nbits + 7) \div 8
        /\ \A k \in 0 .. Len(ret) - 1 :
              /\ ret[k + 1] \in 0 .. 255
              /\ \A b \in 0 .. 7 :
                    ((ret[k + 1] \div Pow2(7 - b)) % 2 = 1)
                        = (k * 8 + b < bitv.nbits /\ Bitv_get(bitv, k * 8 + b))

\* to_bytes of a vector of two bytes whose length is not a multiple of 8, with
\* a 1 in the storage bit at nbits, a 1 at bit 8 and a 1 and a 0 in the first
\* byte
C18_Witness ==
    /\ op.name = "to_bytes"
    /\ bitv.kind = "Big"
    /\ bitv.nbits % 8 = 1
    /\ bitv.nbits < Len(bitv.storage) * WORD_BITS
    /\ BigBitv_get(bitv.storage, bitv.nbits)
    /\ Len(ret) = 2
    /\ ret[2] = 128
    /\ ret[1] \notin {0, 255}

\* bit j (0 the least significant) of the number x
NumberBit(x, j) == (x \div Pow2(j)) % 2 = 1

\* every byte sequence paired with the vector from_bytes builds from it
FromBytesTable == {<<b, from_bytes(b)>> : b \in ByteSeqs}

\* C19 (SpecConv): from_bytes(b) has length 8 * len(b) with bit i equal to
\* bit (7 - i mod 8) of byte i / 8, and from_bytes(b).to_bytes() is b, for the
\* empty sequence and for sequences longer than one word too.
C19_FromBytes ==
    /\ (op.name = "from_bytes") =>
          /\ ~failed
          /\ bitv.nbits = 8 * Len(op.other)
          /\ \A i \in 0 .. bitv.nbits - 1 :
                Bitv_get(bitv, i)
                    = NumberBit(op.other[i \div 8 + 1], 7 - (i % 8))
    /\ (op.name = "to_bytes") =>
          \A p \in FromBytesTable : (pre = p[2]) => (~failed /\ ret = p[1])

\* to_bytes of the vector from_bytes built from two different bytes, neither
\* of them 0 or 255, gives the two bytes back
C19_Witness ==
    /\ op.name = "to_bytes"
    /\ \E p \in FromBytesTable :
          /\ pre = p[2]
          /\ Len(p[1]) = 2
          /\ p[1][1] # p[1][2]
          /\ p[1][1] \notin {0, 255}
          /\ p[1][2] \notin {0, 255}
          /\ ret = p[1]

\* n copies of x
Copies(n, x) == [k \in 1 .. n |-> x]

\* C20 (SpecConv): Bitv::new(n, init) has length n and get(i) == init for
\* every i < n, for n = 0, below, at and above uint::bits; its to_str() is n
\* copies of '0' or of '1', and its eq_vec against n zeros or n ones is true.
C20_New ==
    /\ (op.name = "new") =>
          /\ ~failed
          /\ bitv.nbits = op.v
          /\ \A i \in 0 .. op.v - 1 : Bitv_get(bitv, i) = op.other
    /\ \A n \in 0 .. MaxConvBits, init \in BOOLEAN :
          (pre = Bitv_new(n, init)) =>
              /\ (op.name = "to_str") =>
                    (~failed /\ ret = Copies(n, IF init THEN "1" ELSE "0"))
              /\ (op.name = "eq_vec"
                      /\ op.other = Copies(n, IF init THEN 1 ELSE 0)) =>
                    (~failed /\ ret)

\* eq_vec of new(n, true) against n ones, n above uint::bits and not a
\* multiple of it
C20_Witness ==
    /\ op.name = "eq_vec"
    /\ \E n \in WORD_BITS + 1 .. MaxConvBits :
          /\ n % WORD_BITS # 0
          /\ pre = Bitv_new(n, TRUE)
          /\ op.other = Copies(n, 1)
    /\ ret

\* C21 (SpecBitv): one invert makes get(i) the negation of what it was for
\* every i < nbits, and a second invert brings every get(i) back, for both
\* representations.
C21_InvertTwice ==
    (op.name = "invert") =>
        /\ ~failed
        /\ bitv.nbits = pre.nbits
        /\ bitv.kind = pre.kind
        /\ \A i \in 0 .. pre.nbits - 1 :
              /\ Bitv_get(bitv, i) = ~Bitv_get(pre, i)
              /\ Bitv_get(Bitv_invert(bitv), i) = Bitv_get(pre, i)

\* an invert of a Big vector whose length is not a multiple of uint::bits and
\* that had both a 0 and a 1 below nbits
C21_Witness ==
    /\ op.name = "invert"
    /\ pre.kind = "Big"
    /\ pre.nbits % WORD_BITS # 0
    /\ \E i, j \in 0 .. pre.nbits - 1 :
          /\ Bitv_get(pre, i) /\ ~Bitv_get(bitv, i)
          /\ ~Bitv_get(pre, j) /\ Bitv_get(bitv, j)

\* C22 (SpecBitv): s.unwrap() is a Bitv whose nbits is s.capacity(), a multiple
\* of uint::bits, and whose get(i) is s.contains(i) for every i < capacity().
C22_Unwrap ==
    (op.name = "unwrap") =>
        /\ ~failed
        /\ bitv.nbits = BitvSet_capacity(op.other)
        /\ bitv.nbits % WORD_BITS = 0
        /\ \A i \in 0 .. BitvSet_capacity(op.other) - 1 :
              Bitv_get(bitv, i) = BitvSet_contains(op.other, i)

\* the vector unwrapped from a set of two words with a member, a non-member
\* and a last word without members
C22_Witness ==
    /\ op.name = "unwrap"
    /\ Len(op.other.storage) = 2
    /\ op.other.storage[2] = 0
    /\ bitv.nbits = 2 * WORD_BITS
    /\ \E i, j \in 0 .. bitv.nbits - 1 : Bitv_get(bitv, i) /\ ~Bitv_get(bitv, j)

\* C23 (SpecBitv): v.ones(f) calls f once for each i < nbits with get(i) true
\* and for no other index, in ascending order, stops at the first call f
\* answers false to, and calls f zero times on a cleared vector.
C23_Ones ==
    (op.name = "ones") =>
        LET S == {i \in 0 .. pre.nbits - 1 : Bitv_get(pre, i)}
        IN /\ calls = UpToStop(Ascending(S), op.v)
           /\ ret = (op.v \notin S)
           /\ \A k \in DOMAIN calls : calls[k] < pre.nbits
           /\ (pre = Bitv_clear(pre)) => (calls = <<>>)
           /\ ~failed
           /\ bitv = pre

\* a complete ones over a vector with a 1 below nbits and a 1 in the storage
\* bit at nbits
C23_Witness ==
    /\ op.name = "ones"
    /\ ret
    /\ calls # <<>>
    /\ pre.nbits % WORD_BITS # 0
    /\ IF pre.kind = "Big" THEN BigBitv_get(pre.storage, pre.nbits)
       ELSE SmallBitv_get(pre.bits, pre.nbits)

\* bit i of a vector, read from its word or words
StoredBit(v, i) ==
    IF v.kind = "Big" THEN HasBit(v.storage, i)
    ELSE (v.bits \div Pow2(i)) % 2 = 1

\* C24 (SpecBitv): for i < nbits, get(i) answers bit i, and after set(i, x)
\* get(i) is x and get(j) is unchanged for every other j < nbits; get(i) and
\* set(i, x) with i >= nbits fail and leave the vector as it was.
C24_GetSet ==
    /\ (op.name = "set") =>
          IF op.v < pre.nbits
          THEN /\ ~failed
               /\ bitv.nbits = pre.nbits
               /\ bitv.kind = pre.kind
               /\ Bitv_get(bitv, op.v) = ret
               /\ StoredBit(bitv, op.v) = ret
               /\ \A j \in (0 .. pre.nbits - 1) \ {op.v} :
                     Bitv_get(bitv, j) = Bitv_get(pre, j)
          ELSE failed /\ bitv = pre
    /\ (op.name = "get") =>
          /\ bitv = pre
          /\ IF op.v < pre.nbits
             THEN ~failed /\ ret = StoredBit(pre, op.v)
             ELSE failed

\* a set that changes one bit of a Big vector which has both a 0 and a 1 among
\* its other bits
C24_Witness ==
    /\ op.name = "set"
    /\ pre.kind = "Big"
    /\ op.v < pre.nbits
    /\ Bitv_get(pre, op.v) # ret
    /\ Bitv_get(bitv, op.v) = ret
    /\ \E j, k \in (0 .. pre.nbits - 1) \ {op.v} :
          Bitv_get(bitv, j) /\ ~Bitv_get(bitv, k)

\* C25 (SpecBitv): is_true() is true iff get(i) is true for every i < nbits
\* and is_false() is true iff get(i) is false for every i < nbits, for both
\* representations and whatever the storage bits at and above nbits are.
C25_IsTrueIsFalse ==
    /\ (op.name = "is_true") =>
          /\ ~failed
          /\ ret = (\A i \in 0 .. pre.nbits - 1 : Bitv_get(pre, i))
    /\ (op.name = "is_false") =>
          /\ ~failed
          /\ ret = (\A i \in 0 .. pre.nbits - 1 : ~Bitv_get(pre, i))

\* C26 (Spec): s = BitvSet::from_bitv(v) contains i iff i < v.nbits and
\* v.get(i); no value at or above v.nbits is a member, and s.each visits
\* exactly len() values.
C26_FromBitv ==
    (op.name = "from_bitv") =>
        /\ \A i \in Values :
              BitvSet_contains(set, i)
                  = (i < op.other.nbits /\ Bitv_get(op.other, i))
        /\ Len(BitvSet_each(set, -1).acc) = set.size

\* C27 (SpecBuilt): for two sets built from new() by insert, remove, clear and
\* in-place set operations, a == b is true iff a and b contain the same
\* values, whatever their capacities, and a != b is its negation.
C27_Eq ==
    /\ (op.name = "eq") =>
          /\ ret = (Members(set) = Members(operand))
          /\ ~failed /\ set = pre /\ operand = op.other
    /\ (op.name = "ne") =>
          /\ ret = (Members(set) # Members(operand))
          /\ ~failed /\ set = pre /\ operand = op.other

\* two sets with the same two values and different word counts are equal
C27_Witness ==
    /\ op.name = "eq"
    /\ Len(set.storage) # Len(operand.storage)
    /\ Cardinality(Members(set)) = 2
    /\ Members(set) = Members(operand)
    /\ ret

\* a Big vector has ceil(nbits / uint::bits) words
ExactWords(v) ==
    (v.kind = "Big") =>
        Len(v.storage) = (v.nbits + WORD_BITS - 1) \div WORD_BITS

\* C28 (SpecBitv): every reachable Big vector holds exactly
\* ceil(nbits / uint::bits) words, so between two Big vectors of equal nbits
\* the length assertion of process and the indexing of equals never fail.
C28_BigWordCount ==
    /\ ExactWords(bitv)
    /\ (op.name \in VectorOps \cup {"equal"}) =>
          /\ ExactWords(pre)
          /\ ExactWords(op.other)
          /\ (pre.kind = "Big" /\ op.other.kind = "Big"
                  /\ pre.nbits = op.other.nbits) =>
                (~failed /\ Len(pre.storage) = Len(op.other.storage))

\* a union of two Big vectors of equal nbits, not a multiple of uint::bits,
\* that changes the receiver
C28_Witness ==
    /\ op.name = "union"
    /\ pre.kind = "Big"
    /\ op.other.kind = "Big"
    /\ pre.nbits = op.other.nbits
    /\ pre.nbits % WORD_BITS # 0
    /\ ret
    /\ ~failed

\* the set bits a.op(b) has added to the word array, negative when bits
\* were lost
SignedChange == StorageOnes(set.storage) - StorageOnes(pre.storage)

\* C29 as stated (Spec): in the in-place set operations no subtraction
\* nbits(new) - nbits(old) goes below zero, and the final size is the old
\* size plus the signed change in set bits.
C29_SizeUpdate ==
    (op.name \in SetOps) =>
        /\ \A k \in DOMAIN other_op_size_steps(pre, op.other, op.f) :
              other_op_size_steps(pre, op.other, op.f)[k].new_bits
                  >= other_op_size_steps(pre, op.other, op.f)[k].old_bits
        /\ set.size = pre.size + SignedChange

\* C29 amended (Spec): the subtraction is done on uint and wraps around when
\* a word loses bits (the value added is then 2^uint::bits minus the bits
\* lost); the addition wraps again, so the final size is the old size plus the
\* signed change in set bits modulo 2^uint::bits.
C29_SizeUpdateWraps ==
    (op.name \in SetOps) =>
        /\ \A k \in DOMAIN other_op_size_steps(pre, op.other, op.f) :
              LET step == other_op_size_steps(pre, op.other, op.f)[k]
              IN step.diff = IF step.new_bits >= step.old_bits
                             THEN step.new_bits - step.old_bits
                             ELSE UintModulus - (step.old_bits - step.new_bits)
        /\ set.size = (pre.size + SignedChange) % UintModulus
        /\ ~failed

\* an intersect_with in which a word loses bits: the value added to size is
\* above the size itself, and the size ends lower by the bits lost
C29_Witness ==
    /\ op.name = "intersect_with"
    /\ SignedChange < 0
    /\ \E k \in DOMAIN other_op_size_steps(pre, op.other, op.f) :
          other_op_size_steps(pre, op.other, op.f)[k].diff > pre.size
    /\ set.size = pre.size + SignedChange
    /\ set.size = StorageOnes(set.storage)

\* the Compact vectors of one call: self alone, or self and a Compact
\* operand of the same length
CompactCall ==
    /\ pre.kind = "Small"
    /\ op.name \in VectorOps \cup {"equal"} =>
          op.other.kind = "Small" /\ op.other.nbits = pre.nbits

\* C30 (SpecBitv): for a Compact vector small_mask(nbits) has exactly the low
\* nbits bits set, the all-ones word when nbits = uint::bits, so that equal,
\* is_true, is_false and the changed flag of union / intersect / assign /
\* difference take all nbits bits into account.
C30_SmallMaskFullWidth ==
    (op.name \in VectorOps \cup {"equal", "is_true", "is_false"} /\ CompactCall) =>
        /\ ~failed
        /\ small_mask(pre.nbits) = Pow2(pre.nbits) - 1
        /\ (pre.nbits = WORD_BITS) => small_mask(pre.nbits) = AllOnes
        /\ (op.name = "equal") =>
              ret = (\A i \in 0 .. pre.nbits - 1 :
                        BitAt(pre.bits, i) = BitAt(op.other.bits, i))
        /\ (op.name = "is_true") =>
              ret = (\A i \in 0 .. pre.nbits - 1 : BitAt(pre.bits, i) = 1)
        /\ (op.name = "is_false") =>
              ret = (\A i \in 0 .. pre.nbits - 1 : BitAt(pre.bits, i) = 0)
        /\ (op.name \in VectorOps) =>
              ret = (\E i \in 0 .. pre.nbits - 1 :
                        BitAt(pre.bits, i) # BitAt(bitv.bits, i))

====
